---------------------------- MODULE Spec2Model ----------------------------
(***************************************************************************)
(* A model of objbrowse: the command's start-up (main, open, serve), its   *)
(* two HTTP handlers (httpMain, httpSym), obj.Open and synthesizeSizes of  *)
(* package obj, and the browser-side helpers of objbrowse.js (Bitmap,      *)
(* parseBitmap, renderLiveness, AddrJS, IntervalMap).                      *)
(*                                                                         *)
(* The process part is one state machine (Spec).  The pure algorithms are  *)
(* checked under specifications of their own (SpecSizes, SpecBitmap,       *)
(* SpecLive, SpecAddr, SpecCmp, SpecMap) whose Init draws the inputs from  *)
(* bounded sets and whose actions apply the algorithm.  Every              *)
(* specification constrains all variables: the ones it does not use stay   *)
(* at their idle value.                                                    *)
(***************************************************************************)
EXTENDS Integers, Sequences, FiniteSets, TLC

VARIABLES
    \* ---- the objbrowse process (main.go) ----
    pc,         \* where the process is: "main", "open", "serve", "serving", "exited"
    input,      \* the command line and the object file it names (the environment)
    exit,       \* how the process ended, if it did: [code, cause]
    probes,     \* the format backends obj.Open consulted, in order
    openRes,    \* what obj.Open returned: [obj, err]
    bin,        \* state.bin
    symTab,     \* state.symTab: the names the table holds
    pcToFunc,   \* state.pcToFunc: a map from entry PC to function descriptor
    reqs,       \* the HTTP requests: one record per request slot
    stdout,     \* what the handlers printed to os.Stdout: a set of <<request, text>>
    \* ---- obj.synthesizeSizes ----
    symsIn,     \* the symbol slice as handed to synthesizeSizes
    syms,       \* the slice after sort.Slice and the size loop
    sizesPc,    \* "idle", "ready", "done"
    \* ---- Bitmap / parseBitmap (objbrowse.js) ----
    bmRecord,   \* the record string "N:HEX", a sequence of characters
    bm,         \* the Bitmap parseBitmap built
    bmQuery,    \* the argument of the last bit(n) call
    bmResult,   \* its outcome: "throw", 0 or 1
    bmPc,       \* "idle", "ready", "parsed", "asked"
    \* ---- renderLiveness (objbrowse.js) ----
    liveIn,     \* info and the instruction count
    liveOut,    \* the covered ranges and the table rows
    livePc,     \* "idle", "ready", "done"
    \* ---- AddrJS (objbrowse.js) ----
    addrIn,     \* the constructor's argument: [typ, str, num]
    addr,       \* the AddrJS built: its _digits
    addrStr,    \* what toString() returned
    addrPc,     \* "idle", "ready", "built", "shown"
    \* ---- AddrJS.compare, add, sub (objbrowse.js) ----
    cmpIn,      \* the constructor arguments of the two operands
    cmpVal,     \* the two operands: <<this, b>>, each an AddrJS
    cmpOps,     \* the add and sub calls made on them, in order
    cmpRes,     \* what this.compare(b) returned
    cmpPc,      \* "idle", "ready", "built", "compared", "thrown"
    \* ---- IntervalMap (objbrowse.js) ----
    mapIn,      \* the ranges handed to the IntervalMap constructor
    mapRanges,  \* this.ranges
    mapQuery,   \* the argument of intersect
    mapOut,     \* what intersect returned
    mapPc       \* "idle", "ready", "built", "done"

procVars == <<pc, input, exit, probes, openRes, bin, symTab, pcToFunc, reqs, stdout>>
sizeVars == <<symsIn, syms, sizesPc>>
bmVars   == <<bmRecord, bm, bmQuery, bmResult, bmPc>>
liveVars == <<liveIn, liveOut, livePc>>
addrVars == <<addrIn, addr, addrStr, addrPc>>
cmpVars  == <<cmpIn, cmpVal, cmpOps, cmpRes, cmpPc>>
mapVars  == <<mapIn, mapRanges, mapQuery, mapOut, mapPc>>
vars     == <<procVars, sizeVars, bmVars, liveVars, addrVars, cmpVars, mapVars>>

(***************************************************************************)
(* Bounds of the model.                                                    *)
(***************************************************************************)
MaxReqs == 2        \* request slots (concurrent requests)
MaxArgs == 2        \* command-line arguments tried: 0..MaxArgs

\* A set's elements as the set of its orderings (sequences without repeats).
Perms(S) == {f \in [1..Cardinality(S) -> S] : \A i, j \in DOMAIN f : i # j => f[i] # f[j]}

Max(a, b) == IF a > b THEN a ELSE b
Min(a, b) == IF a < b THEN a ELSE b

(***************************************************************************)
(* The idle values of each part.                                           *)
(***************************************************************************)
ProcIdle ==
    /\ pc = "idle" /\ input = <<>> /\ exit = <<>> /\ probes = <<>>
    /\ openRes = <<>> /\ bin = "nil" /\ symTab = {} /\ pcToFunc = <<>>
    /\ reqs = <<>> /\ stdout = {}
SizesIdle == symsIn = <<>> /\ syms = <<>> /\ sizesPc = "idle"
BmIdle    == bmRecord = <<>> /\ bm = <<>> /\ bmQuery = 0 /\ bmResult = [kind |-> "none"] /\ bmPc = "idle"
LiveIdle  == liveIn = <<>> /\ liveOut = <<>> /\ livePc = "idle"
AddrIdle  == addrIn = <<>> /\ addr = <<>> /\ addrStr = <<>> /\ addrPc = "idle"
CmpIdle   == cmpIn = <<>> /\ cmpVal = <<>> /\ cmpOps = <<>> /\ cmpRes = 0 /\ cmpPc = "idle"
MapIdle   == mapIn = <<>> /\ mapRanges = <<>> /\ mapQuery = <<>> /\ mapOut = <<>> /\ mapPc = "idle"

(***************************************************************************)
(* package obj: Open.                                                      *)
(*                                                                         *)
(* The input r is the object file; r.format says which container format    *)
(* its header is in.  openElf and openPE are the two backends: each        *)
(* accepts exactly the files of its own format.                            *)
(***************************************************************************)
Formats == {"elf", "pe", "other"}

openElf(r) ==
    IF r.format = "elf" THEN [obj |-> "elfFile", err |-> "nil"]
                        ELSE [obj |-> "nil", err |-> "bad ELF magic"]

openPE(r) ==
    IF r.format = "pe" THEN [obj |-> "peFile", err |-> "nil"]
                       ELSE [obj |-> "nil", err |-> "bad PE header"]

\* A variant of Open that probes the PE backend before the ELF one.
OpenPEFirst(r) ==
    IF openPE(r).err = "nil"
    THEN [obj |-> openPE(r).obj, err |-> "nil", probes |-> <<"pe">>]
    ELSE IF openElf(r).err = "nil"
    THEN [obj |-> openElf(r).obj, err |-> "nil", probes |-> <<"pe", "elf">>]
    ELSE [obj |-> "nil", err |-> "unrecognized object file format",
          probes |-> <<"pe", "elf">>]

\* Open attempts to open r as a known object file format.  The result
\* carries, besides (Obj, error), the backends consulted on the way.
Open(r) ==
    IF openElf(r).err = "nil"
    THEN [obj |-> openElf(r).obj, err |-> "nil", probes |-> <<"elf">>]
    ELSE IF openPE(r).err = "nil"
    THEN [obj |-> openPE(r).obj, err |-> "nil", probes |-> <<"elf", "pe">>]
    ELSE [obj |-> "nil", err |-> "unrecognized object file format",
          probes |-> <<"elf", "pe">>]

(***************************************************************************)
(* The command: main, open, serve.                                         *)
(***************************************************************************)
PclntabName == "runtime.pclntab"
TextSym     == "main.f"
FuncPCs     == {4096}    \* the entry PCs of the functions the table describes

\* The environment: the command line and what the named file holds.
Inputs ==
    [nargs    : 0..MaxArgs,
     fileOK   : BOOLEAN,                   \* os.Open succeeds
     format   : Formats,
     symsOK   : BOOLEAN,                   \* bin.Symbols() succeeds
     pclntab  : {"absent", "dataErr", "badVersion", "ok"},
     listenOK : BOOLEAN]                   \* net.Listen succeeds

\* The names bin.Symbols() reports.
ObjSymbols(in) == {TextSym} \cup (IF in.pclntab = "absent" THEN {} ELSE {PclntabName})

\* log.Fatal: print and os.Exit(1).
Fatal(cause) ==
    /\ pc' = "exited"
    /\ exit' = [code |-> 1, cause |-> cause]

InitProc ==
    /\ pc = "main"
    /\ input \in Inputs
    /\ exit = <<>> /\ probes = <<>> /\ openRes = <<>>
    /\ bin = "nil" /\ symTab = {} /\ pcToFunc = <<>>
    /\ reqs = [r \in 1..MaxReqs |-> [pc |-> "free"]]
    /\ stdout = {}

\* main up to the call of open(): the argument count check.
main ==
    /\ pc = "main"
    /\ IF input.nargs # 1
       THEN /\ pc' = "exited"
            /\ exit' = [code |-> 2, cause |-> "usage"]
       ELSE /\ pc' = "open"
            /\ UNCHANGED exit
    /\ UNCHANGED <<input, probes, openRes, bin, symTab, pcToFunc, reqs, stdout>>
    /\ UNCHANGED <<sizeVars, bmVars, liveVars, addrVars, cmpVars, mapVars>>

\* open(): the whole function, one step.
open ==
    /\ pc = "open"
    /\ IF ~input.fileOK
       THEN /\ Fatal("os.Open")
            /\ UNCHANGED <<probes, openRes, bin, symTab, pcToFunc>>
       ELSE LET o == Open(input) IN
            /\ probes' = o.probes
            /\ openRes' = [obj |-> o.obj, err |-> o.err]
            /\ IF o.err # "nil"
               THEN /\ Fatal(o.err)
                    /\ UNCHANGED <<bin, symTab, pcToFunc>>
               ELSE IF ~input.symsOK
               THEN /\ Fatal("Symbols")
                    /\ UNCHANGED <<bin, symTab, pcToFunc>>
               ELSE IF PclntabName \in ObjSymbols(input) /\ input.pclntab = "dataErr"
               THEN /\ Fatal("SymbolData")
                    /\ UNCHANGED <<bin, symTab, pcToFunc>>
               ELSE IF PclntabName \in ObjSymbols(input) /\ input.pclntab = "badVersion"
               THEN /\ Fatal("NewFuncTab")
                    /\ UNCHANGED <<bin, symTab, pcToFunc>>
               ELSE /\ bin' = o.obj
                    /\ symTab' = ObjSymbols(input)
                    /\ pcToFunc' = IF PclntabName \in ObjSymbols(input)
                                   THEN [p \in FuncPCs |-> [PC |-> p]]
                                   ELSE <<>>
                    /\ pc' = "serve"
                    /\ UNCHANGED exit
    /\ UNCHANGED <<input, reqs, stdout>>
    /\ UNCHANGED <<sizeVars, bmVars, liveVars, addrVars, cmpVars, mapVars>>

\* serve(): listen and register the handlers; http.Serve then runs them.
serve ==
    /\ pc = "serve"
    /\ IF input.listenOK
       THEN pc' = "serving" /\ UNCHANGED exit
       ELSE Fatal("failed to create server socket")
    /\ UNCHANGED <<input, probes, openRes, bin, symTab, pcToFunc, reqs, stdout>>
    /\ UNCHANGED <<sizeVars, bmVars, liveVars, addrVars, cmpVars, mapVars>>

(***************************************************************************)
(* The HTTP handlers.  http.Serve runs each request on a goroutine of its  *)
(* own, so requests interleave; a handler is split at the calls it makes.  *)
(* A path is the sequence of its segments: <<>> is "/", <<"s", n>> is      *)
(* "/s/n".  Whether SymbolData, BasicBlocks, liveness or a template fails  *)
(* for a symbol is the environment's choice.                               *)
(***************************************************************************)
Paths == {<<>>, <<"x">>} \cup {<<"s", n>> : n \in {TextSym, PclntabName, "nosuch"}}

Stages == <<"lookup", "data", "blocks", "insts", "liveness", "render">>

FreeReq == [pc |-> "free"]

NewReq(handler, path) ==
    [pc |-> IF handler = "httpSym" THEN "lookup" ELSE "main",
     handler |-> handler, path |-> path,
     code |-> 0, body |-> "none",   \* nothing written to the ResponseWriter yet
     ran |-> <<>>,                   \* the pipeline stages that ran, in order
     info |-> {}]                    \* the fields of SymInfo filled in so far

\* http.Error(w, err.Error(), http.StatusInternalServerError); return
HttpError(q, stage) ==
    [q EXCEPT !.pc = "done", !.code = 500, !.body = "error", !.ran = Append(@, stage)]

\* The handler returned: a response nothing was written to goes out as an
\* empty 200.
Return(q) ==
    [q EXCEPT !.pc = "done",
              !.code = IF q.code = 0 THEN 200 ELSE q.code,
              !.body = IF q.body = "none" THEN "empty" ELSE q.body]

ProcFrame == UNCHANGED <<pc, input, exit, probes, openRes>>
OtherFrame == UNCHANGED <<sizeVars, bmVars, liveVars, addrVars, cmpVars, mapVars>>

\* The mux: "/s/" goes to httpSym, everything else to httpMain.
Accept(r, path) ==
    /\ pc = "serving"
    /\ reqs[r].pc = "free"
    /\ reqs' = [reqs EXCEPT ![r] =
                  NewReq(IF Len(path) > 0 /\ path[1] = "s" THEN "httpSym" ELSE "httpMain",
                         path)]
    /\ UNCHANGED <<bin, symTab, pcToFunc, stdout>>
    /\ ProcFrame /\ OtherFrame

httpMain(r) ==
    /\ pc = "serving"
    /\ reqs[r].pc = "main"
    /\ IF reqs[r].path # <<>>
       THEN reqs' = [reqs EXCEPT ![r] = [@ EXCEPT !.pc = "done", !.code = 404,
                                                  !.body = "error"]]
       ELSE \E ok \in BOOLEAN :
              reqs' = [reqs EXCEPT ![r] =
                         IF ok THEN Return([@ EXCEPT !.code = 200, !.body = "index"])
                               ELSE HttpError(@, "render")]
    /\ UNCHANGED <<bin, symTab, pcToFunc, stdout>>
    /\ ProcFrame /\ OtherFrame

\* A variant of the lookup that records the symbol it resolved in the
\* shared pcToFunc map.
httpSymLookupCaching(r) ==
    /\ pc = "serving"
    /\ reqs[r].pc = "lookup"
    /\ LET name == reqs[r].path[2] IN
       /\ reqs' = [reqs EXCEPT ![r] = [@ EXCEPT !.pc = "data", !.ran = Append(@, "lookup")]]
       /\ pcToFunc' = [p \in (DOMAIN pcToFunc) \cup {0} |-> [PC |-> p]]
    /\ UNCHANGED <<bin, symTab, stdout>>
    /\ ProcFrame /\ OtherFrame

\* sym, ok := s.symTab.Name(r.URL.Path[3:])
httpSymLookup(r) ==
    /\ pc = "serving"
    /\ reqs[r].pc = "lookup"
    /\ LET name == reqs[r].path[2] IN
       IF name \notin symTab
       THEN \* fmt.Println(w, "unknown symbol") prints to os.Stdout
            /\ stdout' = stdout \cup {<<r, "unknown symbol">>}
            /\ reqs' = [reqs EXCEPT ![r] = Return([@ EXCEPT !.ran = Append(@, "lookup")])]
       ELSE /\ reqs' = [reqs EXCEPT ![r] =
                          [@ EXCEPT !.pc = "data", !.ran = Append(@, "lookup")]]
            /\ UNCHANGED stdout
    /\ UNCHANGED <<bin, symTab, pcToFunc>>
    /\ ProcFrame /\ OtherFrame

\* data, err := s.bin.SymbolData(sym); insts := asm.DisasmX86_64(data, sym.Value)
httpSymData(r) ==
    /\ pc = "serving"
    /\ reqs[r].pc = "data"
    /\ \E ok \in BOOLEAN :
         reqs' = [reqs EXCEPT ![r] =
                    IF ok THEN [@ EXCEPT !.pc = "blocks", !.ran = Append(@, "data")]
                          ELSE HttpError(@, "data")]
    /\ UNCHANGED <<bin, symTab, pcToFunc, stdout>>
    /\ ProcFrame /\ OtherFrame

\* bbs, err := asm.BasicBlocks(insts); f := ssa.SSA(insts, bbs); f.Fprint(os.Stdout)
httpSymBlocks(r) ==
    /\ pc = "serving"
    /\ reqs[r].pc = "blocks"
    /\ \E ok \in BOOLEAN :
         IF ok
         THEN /\ reqs' = [reqs EXCEPT ![r] =
                            [@ EXCEPT !.pc = "insts", !.ran = Append(@, "blocks")]]
              /\ stdout' = stdout \cup {<<r, "ssa">>}
         ELSE /\ reqs' = [reqs EXCEPT ![r] = HttpError(@, "blocks")]
              /\ UNCHANGED stdout
    /\ UNCHANGED <<bin, symTab, pcToFunc>>
    /\ ProcFrame /\ OtherFrame

\* The loop over insts that fills disasms; info.Insts = disasms
httpSymInsts(r) ==
    /\ pc = "serving"
    /\ reqs[r].pc = "insts"
    /\ reqs' = [reqs EXCEPT ![r] = [@ EXCEPT !.pc = "liveness", !.ran = Append(@, "insts"),
                                             !.info = @ \cup {"Insts"}]]
    /\ UNCHANGED <<bin, symTab, pcToFunc, stdout>>
    /\ ProcFrame /\ OtherFrame

\* l, err := s.liveness(sym, insts); info.Liveness = l.  The method reads
\* s.pcToFunc and s.bin and writes neither.
httpSymLiveness(r) ==
    /\ pc = "serving"
    /\ reqs[r].pc = "liveness"
    /\ \E ok \in BOOLEAN :
         reqs' = [reqs EXCEPT ![r] =
                    IF ok THEN [@ EXCEPT !.pc = "render", !.ran = Append(@, "liveness"),
                                         !.info = @ \cup {"Liveness"}]
                          ELSE HttpError(@, "liveness")]
    /\ UNCHANGED <<bin, symTab, pcToFunc, stdout>>
    /\ ProcFrame /\ OtherFrame

\* tmplSym.Execute(w, info)
httpSymRender(r) ==
    /\ pc = "serving"
    /\ reqs[r].pc = "render"
    /\ \E ok \in BOOLEAN :
         reqs' = [reqs EXCEPT ![r] =
                    IF ok THEN Return([@ EXCEPT !.code = 200, !.body = "result",
                                                !.ran = Append(@, "render")])
                          ELSE HttpError(@, "render")]
    /\ UNCHANGED <<bin, symTab, pcToFunc, stdout>>
    /\ ProcFrame /\ OtherFrame

httpSym(r) ==
    \/ httpSymLookup(r)
    \/ httpSymData(r)
    \/ httpSymBlocks(r)
    \/ httpSymInsts(r)
    \/ httpSymLiveness(r)
    \/ httpSymRender(r)

Init == InitProc /\ SizesIdle /\ BmIdle /\ LiveIdle /\ AddrIdle /\ CmpIdle /\ MapIdle

Next ==
    \/ main
    \/ open
    \/ serve
    \/ \E r \in 1..MaxReqs, path \in Paths : Accept(r, path)
    \/ \E r \in 1..MaxReqs : httpMain(r)
    \/ \E r \in 1..MaxReqs : httpSym(r)

Spec == Init /\ [][Next]_vars

(***************************************************************************)
(* Claims about the process.                                               *)
(***************************************************************************)

\* C1: obj.Open probes ELF first and PE second and returns the first backend
\* that accepts: an ELF file gives the ELF object, a nil error and no PE
\* probe; a file only PE accepts gives the PE object and a nil error; the
\* result is (nil, "unrecognized object file format") exactly when both
\* backends refuse.
C1_OpenProbesElfThenPE ==
    openRes # <<>> =>
      /\ openElf(input).err = "nil" =>
            /\ openRes = [obj |-> openElf(input).obj, err |-> "nil"]
            /\ probes = <<"elf">>
      /\ (openElf(input).err # "nil" /\ openPE(input).err = "nil") =>
            /\ openRes = [obj |-> openPE(input).obj, err |-> "nil"]
            /\ probes = <<"elf", "pe">>
      /\ (openRes = [obj |-> "nil", err |-> "unrecognized object file format"])
            <=> (openElf(input).err # "nil" /\ openPE(input).err # "nil")
      /\ openRes.err # "nil" => openRes.obj = "nil"

\* A PE file was opened: ELF refused it first, then PE accepted it.
C1_Witness ==
    /\ openRes # <<>>
    /\ openRes.obj = "peFile"
    /\ probes = <<"elf", "pe">>
    /\ bin = "peFile"

\* C3: an object whose runtime.pclntab blob fails to decode (bad version
\* tag) does not terminate the process: with an otherwise good command line
\* and object, the process never exits.
C3_BadFuncTabNotFatal ==
    (/\ input.nargs = 1 /\ input.fileOK /\ input.format # "other"
     /\ input.symsOK /\ input.listenOK /\ input.pclntab = "badVersion")
      => pc # "exited"

\* C6: every finished httpSym request either handed the whole result to the
\* template (every stage ran, the body is the rendered result) or reported
\* an error in the response, after which no later stage ran.
C6_RequestCompletesOrReportsError ==
    \A r \in 1..MaxReqs :
      (reqs[r].pc = "done" /\ reqs[r].handler = "httpSym") =>
        \/ /\ reqs[r].body = "result" /\ reqs[r].code = 200
           /\ reqs[r].ran = Stages
           /\ reqs[r].info = {"Insts", "Liveness"}
        \/ /\ reqs[r].body = "error" /\ reqs[r].code >= 400
           /\ Len(reqs[r].ran) >= 1
           /\ SubSeq(Stages, 1, Len(reqs[r].ran)) = reqs[r].ran

\* What C7 asks of one step.
SharedStateKept ==
    pc \in {"serve", "serving"} =>
      /\ UNCHANGED <<bin, symTab, pcToFunc>>
      /\ Cardinality({q \in 1..MaxReqs : reqs'[q] # reqs[q]}) <= 1

\* C7: once open() has returned, no step writes bin, symTab or pcToFunc, and
\* a step of one request changes no other request's working data.
C7_SharedStateReadOnly == [][SharedStateKept]_vars

\* Two symbol requests in flight at different stages over a non-empty
\* function index.
C7_Witness ==
    /\ pc = "serving"
    /\ DOMAIN pcToFunc = FuncPCs
    /\ reqs[1].pc = "liveness"
    /\ reqs[2].pc = "data"

(***************************************************************************)
(* package obj: synthesizeSizes.                                           *)
(*                                                                         *)
(* A Sym is [Name, Value, Size, Kind]; names identify the symbols of one   *)
(* slice.  Value and Size are uint64 in the source; the subtraction in the *)
(* loop is between neighbours of the sorted slice, so it never wraps, and  *)
(* the model's small addresses behave as the 64-bit ones do.               *)
(***************************************************************************)
MaxSyms == 3                  \* symbols in a slice: 0..MaxSyms

SymText  == "T"
SymUndef == "U"
SymValues == {100, 200, 300}
SymSizes  == {0, 50}
SymKinds  == {SymText, SymUndef}

\* The slices of at most max symbols.
SymSlices(max) ==
    UNION {{[i \in 1..n |-> [Name |-> i, Value |-> v[i], Size |-> z[i], Kind |-> k[i]]] :
              v \in [1..n -> SymValues], z \in [1..n -> SymSizes], k \in [1..n -> SymKinds]} :
           n \in 0..max}

\* sort.Slice(syms, less) with less(i, j) = syms[i].Value < syms[j].Value:
\* the sort is not stable, so it may leave the slice in any order that is
\* a permutation of s with the Values ascending.
SortOutcomes(s) ==
    {o \in {[i \in DOMAIN s |-> s[f[i]]] : f \in Perms(DOMAIN s)} :
       \A i \in DOMAIN o : i + 1 \in DOMAIN o => ~(o[i + 1].Value < o[i].Value)}

\* A variant of the loop that gives undefined symbols a size too.
SizeLoopAnyKind(s, i) ==
    [j \in DOMAIN s |->
       IF j >= i /\ s[j].Size = 0 /\ j + 1 <= Len(s)
       THEN [s[j] EXCEPT !.Size = s[j + 1].Value - s[j].Value]
       ELSE s[j]]

\* for i := range syms { ... }, from index i on (1-based).
RECURSIVE SizeLoop(_, _)
SizeLoop(s, i) ==
    IF i > Len(s) THEN s
    ELSE IF s[i].Size = 0 /\ s[i].Kind # SymUndef /\ i + 1 <= Len(s)
         THEN SizeLoop([s EXCEPT ![i].Size = s[i + 1].Value - s[i].Value], i + 1)
         ELSE SizeLoop(s, i + 1)

InitSizes ==
    /\ symsIn \in SymSlices(MaxSyms)
    /\ syms = symsIn
    /\ sizesPc = "ready"
    /\ ProcIdle /\ BmIdle /\ LiveIdle /\ AddrIdle /\ CmpIdle /\ MapIdle

\* synthesizeSizes(syms): sort, then the loop, in place.
synthesizeSizes ==
    /\ sizesPc = "ready"
    /\ \E sorted \in SortOutcomes(syms) : syms' = SizeLoop(sorted, 1)
    /\ sizesPc' = "done"
    /\ UNCHANGED symsIn
    /\ UNCHANGED <<procVars, bmVars, liveVars, addrVars, cmpVars, mapVars>>

NextSizes == synthesizeSizes

SpecSizes == InitSizes /\ [][NextSizes]_vars

\* The symbol of symsIn that is called name.
Declared(name) == symsIn[CHOOSE i \in DOMAIN symsIn : symsIn[i].Name = name]

\* C2: after synthesizeSizes the slice holds the same symbols in ascending
\* address order; a symbol declared with size 0, not undefined and not last
\* has size = next address - its address, every other symbol keeps its
\* declared size; addresses 100, 200, 300 with sizes 0, 0, 50 end with
\* sizes 100, 100, 50.
C2_SynthesizedSizes ==
    sizesPc = "done" =>
      /\ Len(syms) = Len(symsIn)
      /\ {syms[i].Name : i \in DOMAIN syms} = {symsIn[i].Name : i \in DOMAIN symsIn}
      /\ \A i \in DOMAIN syms :
           /\ i + 1 \in DOMAIN syms => syms[i].Value <= syms[i + 1].Value
           /\ syms[i].Value = Declared(syms[i].Name).Value
           /\ syms[i].Kind = Declared(syms[i].Name).Kind
           /\ syms[i].Size =
                IF /\ Declared(syms[i].Name).Size = 0
                   /\ syms[i].Kind # SymUndef
                   /\ i < Len(syms)
                THEN syms[i + 1].Value - syms[i].Value
                ELSE Declared(syms[i].Name).Size
      /\ (/\ Len(symsIn) = 3
          /\ <<symsIn[1].Value, symsIn[2].Value, symsIn[3].Value>> = <<100, 200, 300>>
          /\ <<symsIn[1].Size, symsIn[2].Size, symsIn[3].Size>> = <<0, 0, 50>>
          /\ \A i \in 1..3 : symsIn[i].Kind = SymText)
           => <<syms[1].Size, syms[2].Size, syms[3].Size>> = <<100, 100, 50>>

\* The example of the specification, given out of address order, with an
\* undefined zero-sized symbol beside it in another run.
C2_Witness ==
    /\ sizesPc = "done"
    /\ Len(symsIn) = 3
    /\ <<symsIn[1].Value, symsIn[2].Value, symsIn[3].Value>> = <<300, 100, 200>>
    /\ <<symsIn[1].Size, symsIn[2].Size, symsIn[3].Size>> = <<50, 0, 0>>
    /\ <<symsIn[1].Kind, symsIn[2].Kind, symsIn[3].Kind>> = <<SymText, SymText, SymUndef>>
    /\ <<syms[1].Size, syms[2].Size, syms[3].Size>> = <<100, 0, 50>>

\* C9: the synthesized sizes do not depend on how the sort orders symbols
\* of equal Value: every order the sort may produce gives the same
\* (Name, Value, Kind, Size) records as the one it did produce.
C9_SizesIndependentOfTieOrder ==
    sizesPc = "done" =>
      \A o \in SortOutcomes(symsIn) :
        {SizeLoop(o, 1)[i] : i \in DOMAIN o} = {syms[i] : i \in DOMAIN syms}

(***************************************************************************)
(* objbrowse.js: Bitmap, Bitmap.prototype.bit, parseBitmap.                *)
(*                                                                         *)
(* A JavaScript string is the sequence of its characters.  A value that    *)
(* may be undefined is [def |-> FALSE] or [def |-> TRUE, val |-> v].       *)
(***************************************************************************)
MaxBits == 9                  \* bit counts of the records: 0..MaxBits

HexChars == <<"0", "1", "2", "3", "4", "5", "6", "7",
              "8", "9", "a", "b", "c", "d", "e", "f">>

IsDigit(c, radix) == \E v \in 1..radix : HexChars[v] = c
DigitVal(c) == (CHOOSE v \in 1..16 : HexChars[v] = c) - 1

Undefined == [def |-> FALSE]
Defined(v) == [def |-> TRUE, val |-> v]

\* parseInt(str, radix) for a string of digits of that radix: the value of
\* the longest prefix of digits.  (An empty prefix gives NaN; the records
\* of the model never have one.)
RECURSIVE ParseIntFrom(_, _, _)
ParseIntFrom(str, radix, acc) ==
    IF str = <<>> \/ ~IsDigit(Head(str), radix) THEN acc
    ELSE ParseIntFrom(Tail(str), radix, acc * radix + DigitVal(Head(str)))

parseInt(str, radix) == ParseIntFrom(str, radix, 0)

\* The index of the first c in str at or after position from, or 0.
IndexOf(str, c, from) ==
    IF \E i \in from..Len(str) : str[i] = c
    THEN CHOOSE i \in from..Len(str) : str[i] = c /\ \A j \in from..(i - 1) : str[j] # c
    ELSE 0

\* str.split(":", 2): the first two ":"-separated parts.
Split2(str) ==
    LET c1 == IndexOf(str, ":", 1) IN
    IF c1 = 0 THEN <<str>>
    ELSE LET c2 == IndexOf(str, ":", c1 + 1) IN
         <<SubSeq(str, 1, c1 - 1),
           SubSeq(str, c1 + 1, IF c2 = 0 THEN Len(str) ELSE c2 - 1)>>

\* str.substr(i, 2), i counted from 0.
Substr2(str, i) == SubSeq(str, i + 1, Min(i + 2, Len(str)))

\* function Bitmap(nbits, bytes): the object has the fields n and bytes.
Bitmap(nbits, bytes) == [n |-> nbits, bytes |-> bytes]

\* this.<name>: undefined for a field the object does not have.
Field(this, name) == IF name \in DOMAIN this THEN Defined(this[name]) ELSE Undefined

\* a >= b in JavaScript for a number a: false when b is undefined (NaN).
JSGeq(a, b) == b.def /\ a >= b.val

\* The loop of parseBitmap over the hex part, from offset i (0-based).
RECURSIVE HexBytes(_, _)
HexBytes(hex, i) ==
    IF i >= Len(hex) THEN <<>>
    ELSE <<parseInt(Substr2(hex, i), 16)>> \o HexBytes(hex, i + 2)

parseBitmap(bitmap) ==
    LET parts == Split2(bitmap)
        nbits == parseInt(parts[1], 10)
    IN  Bitmap(nbits, HexBytes(parts[2], 0))

\* bytes[k] >> s & 1, with bytes[k] undefined (so 0) past the end.
ByteBit(bytes, k, s) ==
    IF k + 1 \in DOMAIN bytes THEN (bytes[k + 1] \div (2 ^ s)) % 2 ELSE 0

\* Bitmap.prototype.bit for an integer n.  The range check reads
\* this.nbits, a field the constructor never sets.
bit(this, n) ==
    IF n < 0 \/ JSGeq(n, Field(this, "nbits"))
    THEN [kind |-> "throw"]
    ELSE [kind |-> "value", val |-> ByteBit(this.bytes, n \div 8, n % 8)]

\* The records the server sends: a decimal bit count, ":", and the bytes
\* in hex, two characters a byte.
RECURSIVE DecString(_)
DecString(n) ==
    IF n < 10 THEN <<HexChars[n + 1]>> ELSE DecString(n \div 10) \o <<HexChars[(n % 10) + 1]>>

RECURSIVE HexString(_)
HexString(bytes) ==
    IF bytes = <<>> THEN <<>>
    ELSE <<HexChars[(Head(bytes) \div 16) + 1], HexChars[(Head(bytes) % 16) + 1]>>
         \o HexString(Tail(bytes))

ByteValues == {0, 5, 255}

BitmapRecords(max) ==
    {DecString(n) \o <<":">> \o HexString(b) :
       n \in 0..max, b \in UNION {[1..k -> ByteValues] : k \in 0..((max + 7) \div 8)}}

WellFormed(rec) ==
    LET b == parseBitmap(rec) IN Len(b.bytes) = (b.n + 7) \div 8

InitBitmap ==
    /\ bmRecord \in {rec \in BitmapRecords(MaxBits) : WellFormed(rec)}
    /\ bm = <<>> /\ bmQuery = 0 /\ bmResult = [kind |-> "none"] /\ bmPc = "ready"
    /\ ProcIdle /\ SizesIdle /\ LiveIdle /\ AddrIdle /\ CmpIdle /\ MapIdle

ParseBitmapCall ==
    /\ bmPc = "ready"
    /\ bm' = parseBitmap(bmRecord)
    /\ bmPc' = "parsed"
    /\ UNCHANGED <<bmRecord, bmQuery, bmResult>>
    /\ UNCHANGED <<procVars, sizeVars, liveVars, addrVars, cmpVars, mapVars>>

BitCall ==
    /\ bmPc = "parsed"
    /\ \E n \in (0 - 2)..(MaxBits + 2) :
         /\ bmQuery' = n
         /\ bmResult' = bit(bm, n)
    /\ bmPc' = "asked"
    /\ UNCHANGED <<bmRecord, bm>>
    /\ UNCHANGED <<procVars, sizeVars, liveVars, addrVars, cmpVars, mapVars>>

NextBitmap == ParseBitmapCall \/ BitCall

SpecBitmap == InitBitmap /\ [][NextBitmap]_vars

\* C4: for a bitmap of N bits, bit(n) throws exactly when n < 0 or n >= N,
\* and returns a bit value for every 0 <= n < N.
C4_BitThrowsOutOfRange ==
    bmPc = "asked" =>
      /\ (bmQuery < 0 \/ bmQuery >= bm.n) <=> bmResult.kind = "throw"
      /\ (0 <= bmQuery /\ bmQuery < bm.n) =>
            (bmResult.kind = "value" /\ bmResult.val \in {0, 1})

(***************************************************************************)
(* objbrowse.js: renderLiveness.                                           *)
(*                                                                         *)
(* info is [PtrSize, VarpDelta, ArgpDelta, Locals, Args, SPOff, Indexes];  *)
(* insts and rows have one entry per element of SPOff.  Sequences are      *)
(* 1-based here, so bitmap index k of the source is locals[k + 1].  What   *)
(* the function appends to the table is kept as data: the four bounds of   *)
(* the covered ranges and, per row, the texts of its cells.                *)
(***************************************************************************)
MaxInsts == 3                 \* instructions of a symbol: 0..MaxInsts

\* var liveMin = 0xffffffff: a value above every address.  (The source's
\* 2^32 - 1 is beyond the model checker's integers; the value is only ever
\* compared with addresses, all of which are far below either.)
RangeMinInit == 2147483647

PtrSizes   == {8}
VarpDeltas == {0 - 8, 0}
ArgpDeltas == {8}
SPOffs     == {0 - 1, 0, 8, 16}
LiveIndexes == {0 - 1, 0}
LocalsLists == {<<DecString(2) \o <<":">> \o HexString(<<1>>)>>}
ArgsLists   == {<<DecString(2) \o <<":">> \o HexString(<<2>>)>>,
                <<DecString(1) \o <<":">> \o HexString(<<1>>)>>}

LiveInputs(max) ==
    UNION {[PtrSize : PtrSizes, VarpDelta : VarpDeltas, ArgpDelta : ArgpDeltas,
            Locals : LocalsLists, Args : ArgsLists,
            SPOff : [1..n -> SPOffs], Indexes : [1..n -> LiveIndexes]] :
           n \in 0..max}

\* arr[k] for a 0-based k: undefined outside the array.
At(arr, k) == IF k + 1 \in DOMAIN arr THEN Defined(arr[k + 1]) ELSE Undefined

\* One pass of the loop "Compute varp/argp and covered range" for
\* instruction i (1-based).
CoverStep(info, locals, args, i, acc) ==
    LET spoff == info.SPOff[i]
        varp  == info.VarpDelta + spoff
        argp  == info.ArgpDelta + spoff
        index == info.Indexes[i]
        ex0   == [varp |-> varp, argp |-> argp, localp |-> Undefined]
    IN
    IF spoff <= 0 \/ index < 0
    THEN [acc EXCEPT !.iextra = Append(@, ex0)]
    ELSE LET localp == varp - locals[index + 1].n * info.PtrSize
             a1 == IF varp > 0
                   THEN [acc EXCEPT !.liveMin = Min(@, localp), !.liveMax = Max(@, varp),
                                    !.iextra = Append(@, [ex0 EXCEPT !.localp = Defined(localp)])]
                   ELSE [acc EXCEPT !.iextra = Append(@, ex0)]
         IN  IF argp > 0
             THEN [a1 EXCEPT !.argMin = Min(@, argp),
                             !.argMax = Max(@, argp + args[index + 1].n * info.PtrSize)]
             ELSE a1

RECURSIVE CoverLoop(_, _, _, _, _)
CoverLoop(info, locals, args, i, acc) ==
    IF i > Len(info.SPOff) THEN acc
    ELSE CoverLoop(info, locals, args, i + 1, CoverStep(info, locals, args, i, acc))

CoverInit ==
    [liveMin |-> RangeMinInit, liveMax |-> 0, argMin |-> RangeMinInit, argMax |-> 0,
     iextra |-> <<>>]

\* addBit(a, bitmap, base): the text of one cell.  i = (a - base) /
\* ptrSize may be NaN (base undefined) or a fraction; bit(i) then reads bit
\* floor(i), since both the byte index and the shift count truncate.
addBit(a, bitmap, base, ptrSize) ==
    IF ~bitmap.def \/ ~base.def THEN [text |-> "", err |-> FALSE]
    ELSE LET num == a - base.val IN
         IF 0 <= num /\ num < bitmap.val.n * ptrSize
         THEN LET b == bit(bitmap.val, num \div ptrSize) IN
              IF b.kind = "throw" THEN [text |-> "", err |-> TRUE]
              ELSE [text |-> IF b.val # 0 THEN "P" ELSE "-", err |-> FALSE]
         ELSE [text |-> "", err |-> FALSE]

\* The addresses lo, lo + step, ... below hi, in order.
RangeAddrs(lo, hi, step) ==
    IF lo < hi THEN [k \in 1..((hi - lo + step - 1) \div step) |-> lo + (k - 1) * step]
    ELSE <<>>

\* The cells of row i: its local cells and, with haveArgs, its argument cells.
RowCells(info, locals, args, cov, i) ==
    LET index == info.Indexes[i]
        la == RangeAddrs(cov.liveMin, cov.liveMax, info.PtrSize)
        aa == IF cov.argMin < cov.argMax
              THEN RangeAddrs(cov.argMin, cov.argMax, info.PtrSize) ELSE <<>>
    IN  [locals |-> [k \in DOMAIN la |->
                       addBit(la[k], At(locals, index), cov.iextra[i].localp, info.PtrSize)],
         args   |-> [k \in DOMAIN aa |->
                       addBit(aa[k], At(args, index), Defined(cov.iextra[i].argp), info.PtrSize)]]

renderLiveness(info) ==
    LET locals == [k \in DOMAIN info.Locals |-> parseBitmap(info.Locals[k])]
        args   == [k \in DOMAIN info.Args |-> parseBitmap(info.Args[k])]
        cov    == CoverLoop(info, locals, args, 1, CoverInit)
        cells  == [i \in DOMAIN info.SPOff |-> RowCells(info, locals, args, cov, i)]
    IN  [liveMin |-> cov.liveMin, liveMax |-> cov.liveMax,
         argMin |-> cov.argMin, argMax |-> cov.argMax,
         rows |-> [i \in DOMAIN cells |->
                     [locals |-> [k \in DOMAIN cells[i].locals |-> cells[i].locals[k].text],
                      args   |-> [k \in DOMAIN cells[i].args |-> cells[i].args[k].text]]],
         err |-> \E i \in DOMAIN cells :
                    \/ \E k \in DOMAIN cells[i].locals : cells[i].locals[k].err
                    \/ \E k \in DOMAIN cells[i].args : cells[i].args[k].err]

InitLive ==
    /\ liveIn \in LiveInputs(MaxInsts)
    /\ liveOut = <<>>
    /\ livePc = "ready"
    /\ ProcIdle /\ SizesIdle /\ BmIdle /\ AddrIdle /\ CmpIdle /\ MapIdle

RenderLivenessCall ==
    /\ livePc = "ready"
    /\ liveOut' = renderLiveness(liveIn)
    /\ livePc' = "done"
    /\ UNCHANGED liveIn
    /\ UNCHANGED <<procVars, sizeVars, bmVars, addrVars, cmpVars, mapVars>>

NextLive == RenderLivenessCall

SpecLive == InitLive /\ [][NextLive]_vars

\* info without the instructions whose SPOff is unknown or non-positive.
RECURSIVE FramedOnly(_, _)
FramedOnly(info, i) ==
    IF i > Len(info.SPOff) THEN [info EXCEPT !.SPOff = <<>>, !.Indexes = <<>>]
    ELSE LET rest == FramedOnly(info, i + 1) IN
         IF info.SPOff[i] <= 0 THEN rest
         ELSE [rest EXCEPT !.SPOff = <<info.SPOff[i]>> \o @,
                           !.Indexes = <<info.Indexes[i]>> \o @]

\* C5: an instruction whose SPOff is -1 or <= 0 adds nothing to the covered
\* local and argument ranges, every local and argument cell of its row is
\* blank, and rendering raises no error.
C5_NoFrameNoLiveness ==
    livePc = "done" =>
      /\ ~liveOut.err
      /\ LET other == renderLiveness(FramedOnly(liveIn, 1)) IN
           <<liveOut.liveMin, liveOut.liveMax, liveOut.argMin, liveOut.argMax>>
             = <<other.liveMin, other.liveMax, other.argMin, other.argMax>>
      /\ \A i \in DOMAIN liveIn.SPOff :
           liveIn.SPOff[i] <= 0 =>
             /\ \A k \in DOMAIN liveOut.rows[i].locals : liveOut.rows[i].locals[k] = ""
             /\ \A k \in DOMAIN liveOut.rows[i].args : liveOut.rows[i].args[k] = ""

(***************************************************************************)
(* objbrowse.js: AddrJS (constructor and toString).                        *)
(*                                                                         *)
(* An AddrJS is the sequence _digits of its 28-bit digits, least           *)
(* significant first.  A hex string is the sequence of its characters.  A  *)
(* JavaScript number is [neg, mag] with mag its magnitude in hex           *)
(* characters, most significant first and without leading zeros (<<>> is   *)
(* zero): addresses go beyond the model checker's integers, so the bit     *)
(* operators are worked out on the hex digits.                             *)
(***************************************************************************)
MaxLead       == 3            \* free characters at the head of an input
MaxPad        == 13           \* repeated characters after them
MaxNumNibbles == 13           \* hex digits of a number input (it stays below 2^53)

AddrJSBits   == 28
AddrJSDigits == AddrJSBits \div 4

Repeat(c, k) == [i \in 1..k |-> c]

RECURSIVE StripZeros(_)
StripZeros(str) ==
    IF str # <<>> /\ Head(str) = "0" THEN StripZeros(Tail(str)) ELSE str

\* The value of a string of at most AddrJSDigits hex digits.
HexValue(str) == parseInt(str, 16)

\* Number.prototype.toString(16) of a non-negative integer.
RECURSIVE ToHex(_)
ToHex(n) ==
    IF n < 16 THEN <<HexChars[n + 1]>> ELSE ToHex(n \div 16) \o <<HexChars[(n % 16) + 1]>>

\* str.padStart(width, "0")
PadStart(str, width) ==
    IF Len(str) >= width THEN str ELSE Repeat("0", width - Len(str)) \o str

\* x == 0 for a string x: the string, read as a numeric literal, is zero.
\* Over hex characters the literals are the decimal ones, with an
\* optional exponent, and the binary ones ("0b...").
StringEqualsZero(x) ==
    \/ x = <<>>
    \/ \A i \in DOMAIN x : x[i] = "0"
    \/ \E k \in 2..(Len(x) - 1) :
         /\ x[k] = "e"
         /\ \A j \in 1..(k - 1) : x[j] = "0"
         /\ \A j \in (k + 1)..Len(x) : IsDigit(x[j], 10)
    \/ /\ Len(x) >= 3 /\ x[1] = "0" /\ x[2] = "b"
       /\ \A j \in 3..Len(x) : x[j] = "0"

\* The loop of the "[object String]" case, from offset i.
RECURSIVE StringDigits(_, _)
StringDigits(x, i) ==
    IF i >= Len(x) THEN <<>>
    ELSE LET end   == Len(x) - i
             start == Max(end - AddrJSDigits, 0)
         IN  <<HexValue(SubSeq(x, start + 1, end))>> \o StringDigits(x, i + AddrJSDigits)

NumZero == [neg |-> FALSE, mag |-> <<>>]
NumPositive(x) == ~x.neg /\ x.mag # <<>>

\* The low k hex digits of a magnitude, padded to k.
LowNibbles(mag, k) ==
    IF Len(mag) >= k THEN SubSeq(mag, Len(mag) - k + 1, Len(mag))
    ELSE PadStart(mag, k)

\* x & mask for a number x >= 0 and mask = (1 << AddrJSBits) - 1: the low
\* 28 bits of ToInt32(x).
AndMask(x) == HexValue(LowNibbles(x.mag, AddrJSDigits))

\* x >> AddrJSBits for a number x >= 0: ToInt32(x) keeps the low 32 bits
\* as a signed value, and the shift leaves its top four bits, sign-extended.
ShiftRight(x) ==
    LET top == DigitVal(LowNibbles(x.mag, AddrJSDigits + 1)[1]) IN
    IF top >= 8 THEN [neg |-> TRUE, mag |-> ToHex(16 - top)]
    ELSE [neg |-> FALSE, mag |-> StripZeros(ToHex(top))]

\* while (x > 0) { digits.push(x & mask); x = x >> AddrJSBits; }
RECURSIVE NumberDigits(_)
NumberDigits(x) ==
    IF ~NumPositive(x) THEN <<>>
    ELSE <<AndMask(x)>> \o NumberDigits(ShiftRight(x))

\* new AddrJS(x) for x undefined, a string (x.str) or a number (x.num).
AddrJS(x) ==
    IF x.typ = "undefined" THEN <<>>
    ELSE IF x.typ = "string"
    THEN IF StringEqualsZero(x.str) THEN <<>> ELSE StringDigits(x.str, 0)
    ELSE IF x.num = NumZero THEN <<>> ELSE NumberDigits(x.num)

\* The loop of toString over the digits below the top one.
RECURSIVE LowerDigits(_, _)
LowerDigits(d, i) ==
    IF i < 1 THEN <<>>
    ELSE PadStart(ToHex(d[i]), AddrJSDigits) \o LowerDigits(d, i - 1)

toString(d) ==
    IF Len(d) = 0 THEN <<"0">>
    ELSE ToHex(d[Len(d)]) \o LowerDigits(d, Len(d) - 1)

\* The inputs: up to MaxLead free characters, then up to MaxPad copies of
\* one character.
LeadChars == {"0", "1", "8", "b", "e", "f"}
PadChars  == {"0", "f"}

HexStrings(maxLead, maxPad) ==
    {lead \o Repeat(c, k) :
       lead \in UNION {[1..n -> LeadChars] : n \in 0..maxLead},
       c \in PadChars, k \in 0..maxPad}

AddrInputs(maxLead, maxPad, maxNum) ==
    {[typ |-> "undefined", str |-> <<>>, num |-> NumZero]}
    \cup {[typ |-> "string", str |-> h, num |-> NumZero] : h \in HexStrings(maxLead, maxPad)}
    \cup {[typ |-> "number", str |-> <<>>, num |-> [neg |-> FALSE, mag |-> h]] :
            h \in {g \in HexStrings(maxLead, maxPad) :
                     g = StripZeros(g) /\ Len(g) <= maxNum}}

InitAddr ==
    /\ addrIn \in AddrInputs(MaxLead, MaxPad, MaxNumNibbles)
    /\ addr = <<>> /\ addrStr = <<>> /\ addrPc = "ready"
    /\ ProcIdle /\ SizesIdle /\ BmIdle /\ LiveIdle /\ CmpIdle /\ MapIdle

AddrNew ==
    /\ addrPc = "ready"
    /\ addr' = AddrJS(addrIn)
    /\ addrPc' = "built"
    /\ UNCHANGED <<addrIn, addrStr>>
    /\ UNCHANGED <<procVars, sizeVars, bmVars, liveVars, cmpVars, mapVars>>

AddrToString ==
    /\ addrPc = "built"
    /\ addrStr' = toString(addr)
    /\ addrPc' = "shown"
    /\ UNCHANGED <<addrIn, addr>>
    /\ UNCHANGED <<procVars, sizeVars, bmVars, liveVars, cmpVars, mapVars>>

NextAddr == AddrNew \/ AddrToString

SpecAddr == InitAddr /\ [][NextAddr]_vars

\* The hexadecimal form of the value the constructor was given.
GivenHex ==
    IF addrIn.typ = "undefined" THEN <<>>
    ELSE IF addrIn.typ = "string" THEN StripZeros(addrIn.str)
    ELSE addrIn.num.mag

\* C10: an AddrJS built from a value v, given as a hex string or as a
\* number, holds v: toString() gives v's hexadecimal digits (leading zeros
\* aside), whatever the size of v.
C10_AddrHoldsValue ==
    addrPc = "shown" => StripZeros(addrStr) = GivenHex

(***************************************************************************)
(* objbrowse.js: AddrJS (_trim, compare, add, sub).                        *)
(***************************************************************************)
MaxCmpPad == 8       \* repeated characters of an operand's string or number
MaxCmpOps == 1       \* add and sub calls before the comparison

\* _trim: pop the most significant digits while they are zero.
RECURSIVE _trim(_)
_trim(d) ==
    IF Len(d) > 0 /\ d[Len(d)] = 0 THEN _trim(SubSeq(d, 1, Len(d) - 1)) ELSE d

\* new AddrJS(undefined, _digits)
AddrJSFrom(_digits) == _trim(_digits)

\* The loop of compare, from index i down (indexes count from 1 here).
RECURSIVE CompareFrom(_, _, _)
CompareFrom(x, y, i) ==
    IF i < 1 THEN 0
    ELSE IF x[i] < y[i] THEN -1
    ELSE IF x[i] > y[i] THEN 1
    ELSE CompareFrom(x, y, i - 1)

\* this.compare(b), x and y the digits of this and b
compare(x, y) ==
    IF Len(x) < Len(y) THEN -1
    ELSE IF Len(x) > Len(y) THEN 1
    ELSE CompareFrom(x, y, Len(x))

\* x[i] || 0
DigitOr0(x, i) == IF i <= Len(x) /\ x[i] # 0 THEN x[i] ELSE 0

\* The loop of add from index i, followed by out.push(carry).
RECURSIVE AddLoop(_, _, _, _)
AddLoop(x, y, i, carry) ==
    IF i > Max(Len(x), Len(y)) THEN <<carry>>
    ELSE LET o == DigitOr0(x, i) + DigitOr0(y, i) + carry
         IN  <<o % (2 ^ AddrJSBits)>> \o AddLoop(x, y, i + 1, o \div (2 ^ AddrJSBits))

\* this.add(b)
add(x, y) == AddrJSFrom(AddLoop(x, y, 1, 0))

\* The loop of sub from index i: the digits pushed and the last borrow.
RECURSIVE SubLoop(_, _, _, _)
SubLoop(x, y, i, borrow) ==
    IF i > Max(Len(x), Len(y)) THEN [out |-> <<>>, borrow |-> borrow]
    ELSE LET xx   == DigitOr0(x, i)
             yy   == DigitOr0(y, i) + borrow
             b    == IF xx < yy THEN 1 ELSE 0
             rest == SubLoop(x, y, i + 1, b)
         IN  [out |-> <<xx + b * (2 ^ AddrJSBits) - yy>> \o rest.out,
              borrow |-> rest.borrow]

\* this.sub(b): it throws "negative result", or returns an AddrJS.
sub(x, y) ==
    LET r == SubLoop(x, y, 1, 0) IN
    IF r.borrow # 0 THEN [throws |-> TRUE, val |-> <<>>]
    ELSE [throws |-> FALSE, val |-> AddrJSFrom(r.out)]

\* The operands: strings and numbers of at most one free character and
\* maxPad repeated ones.
CmpInputs(maxPad) == AddrInputs(1, maxPad, maxPad)

InitCmp ==
    /\ cmpIn \in CmpInputs(MaxCmpPad) \X CmpInputs(MaxCmpPad)
    /\ cmpVal = <<>> /\ cmpOps = <<>> /\ cmpRes = 0 /\ cmpPc = "ready"
    /\ ProcIdle /\ SizesIdle /\ BmIdle /\ LiveIdle /\ AddrIdle /\ MapIdle

CmpFrame == UNCHANGED <<procVars, sizeVars, bmVars, liveVars, addrVars, mapVars>>

\* a = new AddrJS(...); b = new AddrJS(...)
CmpNew ==
    /\ cmpPc = "ready"
    /\ cmpVal' = <<AddrJS(cmpIn[1]), AddrJS(cmpIn[2])>>
    /\ cmpPc' = "built"
    /\ UNCHANGED <<cmpIn, cmpOps, cmpRes>>
    /\ CmpFrame

\* a = a.add(b)
CmpAdd ==
    /\ cmpPc = "built" /\ Len(cmpOps) < MaxCmpOps
    /\ cmpVal' = <<add(cmpVal[1], cmpVal[2]), cmpVal[2]>>
    /\ cmpOps' = Append(cmpOps, "add")
    /\ UNCHANGED <<cmpIn, cmpRes, cmpPc>>
    /\ CmpFrame

\* a = a.sub(b)
CmpSub ==
    /\ cmpPc = "built" /\ Len(cmpOps) < MaxCmpOps
    /\ LET r == sub(cmpVal[1], cmpVal[2]) IN
         IF r.throws
         THEN cmpPc' = "thrown" /\ UNCHANGED cmpVal
         ELSE cmpVal' = <<r.val, cmpVal[2]>> /\ UNCHANGED cmpPc
    /\ cmpOps' = Append(cmpOps, "sub")
    /\ UNCHANGED <<cmpIn, cmpRes>>
    /\ CmpFrame

\* a.compare(b)
CmpCompare ==
    /\ cmpPc = "built"
    /\ cmpRes' = compare(cmpVal[1], cmpVal[2])
    /\ cmpPc' = "compared"
    /\ UNCHANGED <<cmpIn, cmpVal, cmpOps>>
    /\ CmpFrame

NextCmp == CmpNew \/ CmpAdd \/ CmpSub \/ CmpCompare

SpecCmp == InitCmp /\ [][NextCmp]_vars

\* The numeric value of an AddrJS is the sum of its digits d[i], each
\* weighted by 2^(AddrJSBits * (i - 1)); digits beyond the end count as 0.
ValueDigit(d, i) == IF i <= Len(d) THEN d[i] ELSE 0

\* The value of x is below the value of y: at the most significant digit
\* where they differ, x's is the smaller.
ValueLess(x, y) ==
    \E i \in 1..Max(Len(x), Len(y)) :
       /\ ValueDigit(x, i) < ValueDigit(y, i)
       /\ \A j \in (i + 1)..Max(Len(x), Len(y)) : ValueDigit(x, j) = ValueDigit(y, j)

ValueOrder(x, y) ==
    IF ValueLess(x, y) THEN -1 ELSE IF ValueLess(y, x) THEN 1 ELSE 0

\* C11: for AddrJS values a and b built by the constructor (from a hex
\* string, leading zeros allowed, or from a number) and by add and sub,
\* a.compare(b) is -1, 0 or 1 as a's numeric value is below, equal to or
\* above b's.
C11_CompareIsNumericOrder ==
    cmpPc = "compared" => cmpRes = ValueOrder(cmpVal[1], cmpVal[2])

(***************************************************************************)
(* objbrowse.js: IntervalMap.                                              *)
(*                                                                         *)
(* A range is <<low, high>>, two AddrJS values (the additional data a      *)
(* caller may store after them plays no part).                             *)
(***************************************************************************)
MaxMapRanges   == 2      \* ranges handed to the constructor
MaxQueryRanges == 2      \* ranges handed to intersect

\* static overlap(r1, r2)
overlap(r1, r2) == compare(r1[2], r2[1]) > 0 /\ compare(r1[1], r2[2]) < 0

\* The code unit of a hex character as toString produces it.
CharCode(c) == IF IsDigit(c, 10) THEN 48 + DigitVal(c) ELSE 87 + DigitVal(c)

\* s < t for two strings: the order of their code units, a proper prefix
\* coming first.
StringLess(s, t) ==
    \E k \in 1..Len(t) :
       /\ \A n \in 1..(k - 1) : n <= Len(s) /\ s[n] = t[n]
       /\ \/ k > Len(s)
          \/ CharCode(s[k]) < CharCode(t[k])

\* a < b for two AddrJS objects: the operator takes the primitive value
\* of each, which is the string toString() returns (the class defines no
\* valueOf), and compares the two strings.
ObjectLess(a, b) == StringLess(toString(a), toString(b))

\* The loop of intersect from indexes i and j (counted from 1): what is
\* pushed to out from there on.
RECURSIVE IntersectFrom(_, _, _, _)
IntersectFrom(this, ranges, i, j) ==
    IF ~(i <= Len(ranges) /\ j <= Len(this)) THEN <<>>
    ELSE IF overlap(ranges[i], this[j])
    THEN <<this[j]>> \o IntersectFrom(this, ranges, i, j + 1)
    ELSE IF ObjectLess(ranges[i][1], this[j][1])
    THEN IntersectFrom(this, ranges, i + 1, j)
    ELSE IntersectFrom(this, ranges, i, j + 1)

\* this.intersect(ranges), this the map's ranges
intersect(this, ranges) == IntersectFrom(this, ranges, 1, 1)

\* ranges.sort((a, b) => a[0].compare(b[0])): the orderings of the array
\* the comparator accepts (ranges it calls equal come in any order).
SortByLow(ranges) ==
    {s \in {[i \in DOMAIN ranges |-> ranges[p[i]]] : p \in Perms(DOMAIN ranges)} :
       \A i, j \in DOMAIN s : i < j => compare(s[i][1], s[j][1]) <= 0}

\* The addresses of the inputs, as parseRanges builds them from the hash.
MapStrings == {<<"1">>, <<"9">>, <<"1", "0">>, <<"1", "1">>}
MapAddrs   == {AddrJS([typ |-> "string", str |-> h, num |-> NumZero]) : h \in MapStrings}

\* The ranges [low, high) with low below high.
MapRangeSet == {r \in MapAddrs \X MapAddrs : ValueLess(r[1], r[2])}

RangeLists(max) == UNION {[1..n -> MapRangeSet] : n \in 0..max}

\* The lists sorted by low.
SortedRangeLists(max) ==
    {q \in RangeLists(max) : \A i, j \in DOMAIN q : i < j => ~ValueLess(q[j][1], q[i][1])}

InitMap ==
    /\ mapIn \in RangeLists(MaxMapRanges)
    /\ mapQuery \in SortedRangeLists(MaxQueryRanges)
    /\ mapRanges = <<>> /\ mapOut = <<>> /\ mapPc = "ready"
    /\ ProcIdle /\ SizesIdle /\ BmIdle /\ LiveIdle /\ AddrIdle /\ CmpIdle

MapFrame == UNCHANGED <<procVars, sizeVars, bmVars, liveVars, addrVars, cmpVars>>

\* new IntervalMap(ranges)
MapNew ==
    /\ mapPc = "ready"
    /\ mapRanges' \in SortByLow(mapIn)
    /\ mapPc' = "built"
    /\ UNCHANGED <<mapIn, mapQuery, mapOut>>
    /\ MapFrame

\* map.intersect(ranges)
MapIntersect ==
    /\ mapPc = "built"
    /\ mapOut' = intersect(mapRanges, mapQuery)
    /\ mapPc' = "done"
    /\ UNCHANGED <<mapIn, mapRanges, mapQuery>>
    /\ MapFrame

NextMap == MapNew \/ MapIntersect

SpecMap == InitMap /\ [][NextMap]_vars

\* Two ranges overlap by numeric address value: each one's low is below
\* the other's high.
ValueOverlap(r1, r2) == ValueLess(r1[1], r2[2]) /\ ValueLess(r2[1], r1[2])

\* The map's ranges that overlap some range of the query, each once and in
\* the map's order.
Overlapping ==
    LET Hit(m) == \E k \in DOMAIN mapQuery : ValueOverlap(mapQuery[k], m)
    IN  SelectSeq(mapRanges, Hit)

\* C12: for a query list of [low, high) ranges sorted by low, intersect
\* returns exactly the map's ranges that overlap at least one query range
\* by numeric address value, each once and in the map's sorted order.
C12_IntersectIsOverlapSubset ==
    mapPc = "done" => mapOut = Overlapping

=============================================================================
